---- MODULE Spec2Model ----
(***************************************************************************)
(* Session lifecycle of the GroVELLOWS client: the AuthProvider context    *)
(* (contexts/AuthContext), the Login screen with its MFA modal, the        *)
(* Register screen and the Profile screen's logout, over AsyncStorage and  *)
(* the HTTP API.                                                           *)
(*                                                                         *)
(* Every async handler is a process: one action per stretch of code        *)
(* between two awaits.  A storage or network call takes effect in the step *)
(* in which its promise settles, together with the synchronous code that   *)
(* follows it up to the next await (React commits the state updates of one *)
(* such stretch together).  Handlers of different call sites interleave    *)
(* freely at their awaits; the code holds no lock.                         *)
(***************************************************************************)
EXTENDS Integers, Sequences, FiniteSets, TLC

\* Number of distinct sessions (access_token i with user profile i) the
\* server can issue.
MaxSession == 2

\* null / undefined of the source: no token, no user.
Null == 0

Sessions == 1..MaxSession

\* Number of handlers that may be in flight at once.
MaxInFlight == 2

\* Length the MFA code must have (mfaCode.length !== 6).
MfaCodeLen == 6

----------------------------------------------------------------------------
\* AsyncStorage values.  A key is absent (getItem gives null) or holds a
\* string: the bare token, the JSON text of a user, or text that is not JSON.

Absent == [kind |-> "absent", val |-> Null]

Garbage == [kind |-> "garbage", val |-> Null]

\* The string AsyncStorage.setItem('token', t) stores for token t.
Str(t) == [kind |-> "str", val |-> t]

\* Mutant: the user object is stored without JSON.stringify.
JSONstringifyMissing(u) == [kind |-> "garbage", val |-> 0]

\* JSON.stringify(user): the JSON text of a user profile.
JSONstringify(u) == [kind |-> "json", val |-> u]

\* JSON.parse(text): the value, or a thrown SyntaxError.
JSONparse(s) ==
  IF s.kind = "json" THEN [ok |-> TRUE, val |-> s.val]
                     ELSE [ok |-> FALSE, val |-> Null]

\* Mutant: the stored values are never found.
TruthyNever(s) == FALSE

\* Truthiness of what getItem returned (null is falsy, a stored string is not).
Truthy(s) == s.kind # "absent"

TokenStrings == {Absent} \cup {Str(t) : t \in Sessions}

UserStrings == {Absent, Garbage} \cup {JSONstringify(u) : u \in Sessions}

----------------------------------------------------------------------------
\* Inputs.

\* What the user has typed into the e-mail and password fields.
CredentialInputs == {<<"", "">>, <<"a@x.com", "">>, <<"a@x.com", "secret">>}

\* What the user has typed into the MFA code field (maxLength 6).
CodeInputs == {<<>>, <<1, 2, 3, 4, 5>>, <<1, 2, 3, 4, 5, 6>>}

\* What the user has typed into the Register form (email, password, name).
RegisterInputs == {<<"", "", "">>, <<"b@x.com", "", "B">>, <<"b@x.com", "pw", "B">>}

\* Answers of POST /auth/login: MFA required, a token with its user, a 2xx
\* body with neither, or an error (with or without a server detail, with or
\* without a response at all).
OkResponses == {[kind |-> "ok", sess |-> s, detail |-> "", message |-> ""] : s \in Sessions}

ErrorResponses ==
  { [kind |-> "error", sess |-> Null, detail |-> "Invalid credentials",
     message |-> "Request failed with status code 401"],
    [kind |-> "error", sess |-> Null, detail |-> "",
     message |-> "Network Error"],
    [kind |-> "error", sess |-> Null, detail |-> "", message |-> ""] }

MfaRequired == [kind |-> "mfa", sess |-> Null, detail |-> "", message |-> ""]

EmptyBody == [kind |-> "empty", sess |-> Null, detail |-> "", message |-> ""]

LoginResponses == OkResponses \cup ErrorResponses \cup {MfaRequired, EmptyBody}

\* error.message of a rejected AsyncStorage call.
StorageError == "AsyncStorage error"

\* Mutant: the fallback text is used whatever the error carries.
Or3Last(a, b, c) == c

\* a || b || c on strings.
Or3(a, b, c) == IF a # "" THEN a ELSE IF b # "" THEN b ELSE c

----------------------------------------------------------------------------
VARIABLES
  user, token, authLoading,       \* AuthProvider state
  stToken, stUser,                \* AsyncStorage keys 'token' and 'user'
  email, password, loading,       \* Login screen state
  showMfaModal, mfaCode, mfaLoading, pendingEmail, pendingPassword,
  regForm, regLoading,            \* Register screen state
  screen,                         \* route on top of the navigation stack
  rs, hl, mv, lo, rg,             \* loadStoredAuth, handleLogin, handleMfaVerify,
                                  \* handleLogout, handleRegister in flight
  consents, stConsent, gc,        \* GDPR screen: switches, AsyncStorage key
                                  \* 'gdpr_consent', handleContinue in flight
  tender, isClaiming, hc,         \* tender screen: the tender, the busy flag,
                                  \* the handleClaim calls in flight
  ev,                             \* what the last step did (observation)
  iv,                             \* handlers in flight that another handler wrote under
  persisted                       \* session a completed login left in the store

vars == <<user, token, authLoading, stToken, stUser, email, password, loading,
          showMfaModal, mfaCode, mfaLoading, pendingEmail, pendingPassword,
          regForm, regLoading, screen, rs, hl, mv, lo, rg,
          consents, stConsent, gc, tender, isClaiming, hc, ev, iv, persisted>>

provider == <<user, token, authLoading>>
storage == <<stToken, stUser>>
loginForm == <<email, password>>
loginUi == <<loading, showMfaModal, mfaCode, mfaLoading, pendingEmail, pendingPassword>>
registerUi == <<regForm, regLoading>>
gdprUi == <<consents, stConsent, gc>>
tenderUi == <<tender, isClaiming, hc>>
session == <<provider, storage, loginForm, loginUi, rs, hl, mv, lo>>

----------------------------------------------------------------------------
\* Handler records at rest.

RsStart == [pc |-> "getToken", storedToken |-> Absent]
RsDone == [pc |-> "done", storedToken |-> Absent]
\* preToken / preUser: the provider's token and user when the handler started.
HlIdle == [pc |-> "idle", email |-> "", password |-> "", sess |-> Null,
           preToken |-> Null, preUser |-> Null]
MvIdle == [pc |-> "idle", email |-> "", password |-> "", code |-> <<>>, sess |-> Null,
           preToken |-> Null, preUser |-> Null]
\* auth: the session was authenticated when logout was confirmed;
\* apiFailed: the POST /auth/logout of this run failed.
LoIdle == [pc |-> "idle", auth |-> FALSE, apiFailed |-> FALSE]
RgIdle == [pc |-> "idle", sess |-> Null, preToken |-> Null, preUser |-> Null]

\* useState of the GDPR screen: every switch off.
NoConsents == [dataProcessing |-> FALSE, dataStorage |-> FALSE,
               analytics |-> FALSE, marketing |-> FALSE]
GcIdle == [pc |-> "idle", consents |-> NoConsents]
\* useState<Tender | null>(null): not loaded; claimed_by is Null when unset.
NoTender == [loaded |-> FALSE, claimed_by |-> Null]

Handlers == {"rs", "hl", "mv", "lo", "rg"}

\* The handlers that have started and not yet settled.
Live ==
  {h \in Handlers :
     \/ h = "rs" /\ rs.pc # "done"
     \/ h = "hl" /\ hl.pc # "idle"
     \/ h = "mv" /\ mv.pc # "idle"
     \/ h = "lo" /\ lo.pc # "idle"
     \/ h = "rg" /\ rg.pc # "idle"}

\* What a reader of the context sees as a session: a token and a user.
Authenticated == token # Null /\ user # Null

\* msg: the text shown to the user; detail: error.response?.data?.detail of a
\* failed request ("" when the error carries none).
Event(by, op, out, msg) == [by |-> by, op |-> op, out |-> out, msg |-> msg, detail |-> ""]

\* The event of a request that failed with error r.
Rejection(by, op, r, msg) ==
  [by |-> by, op |-> op, out |-> "apiFail", msg |-> msg, detail |-> r.detail]

\* Bookkeeping of a step of handler h (or of the user, h = "ui"): the event,
\* the handlers whose run it interfered with (w says what the step wrote:
\* "none", "mem" for token/user, "store" for the persisted keys), and the
\* session the store is known to hold (p).
\* The session's handlers never touch the state of the GDPR screen or of
\* the tender screen.
Track(h, e, w, p) ==
  /\ ev' = e
  /\ iv' = (iv \cap Live) \cup (IF w # "none" THEN Live \ {h} ELSE {})
  /\ persisted' = p
  /\ UNCHANGED <<gdprUi, tenderUi>>

\* Bookkeeping of a step of the GDPR screen or the tender screen.
Note(e) ==
  /\ ev' = e
  /\ iv' = iv \cap Live
  /\ persisted' = persisted

\* A handler may start while fewer than MaxInFlight are in flight.
CanStart == Cardinality(Live) < MaxInFlight

----------------------------------------------------------------------------
\* AuthProvider: the state after the provider mounted and its effect started
\* loadStoredAuth.  The store holds whatever earlier runs (or a corruption)
\* left in it.  The entry route (app/index) decides the first screen.

Init ==
  /\ user = Null /\ token = Null /\ authLoading = TRUE
  /\ stToken \in TokenStrings /\ stUser \in UserStrings
  /\ email = "" /\ password = "" /\ loading = FALSE
  /\ showMfaModal = FALSE /\ mfaCode = <<>> /\ mfaLoading = FALSE
  /\ pendingEmail = "" /\ pendingPassword = ""
  /\ regForm = <<"", "", "">> /\ regLoading = FALSE
  /\ screen \in {"login", "tabs"}
  /\ rs = RsStart /\ hl = HlIdle /\ mv = MvIdle /\ lo = LoIdle /\ rg = RgIdle
  /\ consents = NoConsents /\ stConsent = {} /\ gc = GcIdle
  /\ tender = NoTender /\ isClaiming = FALSE /\ hc = {}
  /\ ev = Event("ui", "mount", "none", "")
  /\ iv = {}
  /\ persisted = Null

----------------------------------------------------------------------------
\* updateToken(newToken) / updateUser(newUser) of the provider, exposed as
\* setToken / setUser: the storage call, then the in-memory assignment.

\* Mutant: updateToken stores the token and forgets setToken(newToken).
updateTokenStoreOnly(newToken) ==
  /\ stToken' = IF newToken # Null THEN Str(newToken) ELSE Absent
  /\ token' = token

\* Mutant: updateUser stores the user and forgets setUser(newUser).
updateUserStoreOnly(newUser) ==
  /\ stUser' = IF newUser # Null THEN JSONstringify(newUser) ELSE Absent
  /\ user' = user

updateToken(newToken) ==
  /\ stToken' = IF newToken # Null THEN Str(newToken) ELSE Absent
  /\ token' = newToken

updateUser(newUser) ==
  /\ stUser' = IF newUser # Null THEN JSONstringify(newUser) ELSE Absent
  /\ user' = newUser

----------------------------------------------------------------------------
\* loadStoredAuth.

\* await AsyncStorage.getItem('token')
RestoreGetToken ==
  /\ rs.pc = "getToken"
  /\ rs' = [rs EXCEPT !.pc = "getUser", !.storedToken = stToken]
  /\ Track("rs", Event("rs", "restore", "pending", ""), "none", persisted)
  /\ UNCHANGED <<provider, storage, loginForm, loginUi, registerUi, screen, hl, mv, lo, rg>>

\* Mutant: the test is `storedToken` alone.
RestoreGetUserTokenOnly ==
  /\ rs.pc = "getUser"
  /\ LET storedToken == rs.storedToken
         storedUser == stUser
         both == Truthy(storedToken)
         parsed == JSONparse(storedUser)
     IN /\ token' = IF both THEN storedToken.val ELSE token
        /\ user' = IF both /\ parsed.ok THEN parsed.val ELSE user
        /\ Track("rs",
                 Event("rs", "restore",
                       IF ~both THEN "empty" ELSE IF parsed.ok THEN "loaded" ELSE "parseError", ""),
                 IF both THEN "mem" ELSE "none", persisted)
  /\ authLoading' = FALSE
  /\ rs' = RsDone
  /\ UNCHANGED <<storage, loginForm, loginUi, registerUi, screen, hl, mv, lo, rg>>

\* await AsyncStorage.getItem('user'), then the rest of the try block and
\* the finally.  setToken runs before JSON.parse is evaluated.
RestoreGetUser ==
  /\ rs.pc = "getUser"
  /\ LET storedToken == rs.storedToken
         storedUser == stUser
         both == Truthy(storedToken) /\ Truthy(storedUser)
         parsed == JSONparse(storedUser)
     IN /\ token' = IF both THEN storedToken.val ELSE token
        /\ user' = IF both /\ parsed.ok THEN parsed.val ELSE user
        /\ Track("rs",
                 Event("rs", "restore",
                       IF ~both THEN "empty" ELSE IF parsed.ok THEN "loaded" ELSE "parseError", ""),
                 IF both THEN "mem" ELSE "none", persisted)
  /\ authLoading' = FALSE
  /\ rs' = RsDone
  /\ UNCHANGED <<storage, loginForm, loginUi, registerUi, screen, hl, mv, lo, rg>>

\* A getItem that rejects: catch logs, finally clears loading.
RestoreReadError ==
  /\ rs.pc \in {"getToken", "getUser"}
  /\ authLoading' = FALSE
  /\ rs' = RsDone
  /\ Track("rs", Event("rs", "restore", "readError", ""), "none", persisted)
  /\ UNCHANGED <<user, token, storage, loginForm, loginUi, registerUi, screen, hl, mv, lo, rg>>

----------------------------------------------------------------------------
\* handleLogin.

\* Mutant: handleLogin without its empty-field guard.
LoginPressNoGuard ==
  /\ screen = "login" /\ ~showMfaModal /\ ~loading /\ hl.pc = "idle"
  /\ \E c \in CredentialInputs :
       /\ email' = c[1]
       /\ password' = c[2]
       /\ CanStart
       /\ loading' = TRUE
       /\ hl' = [HlIdle EXCEPT !.pc = "post", !.email = c[1], !.password = c[2],
                               !.preToken = token, !.preUser = user]
       /\ Track("hl", Event("hl", "handleLogin", "start", ""), "none", persisted)
  /\ UNCHANGED <<provider, storage, showMfaModal, mfaCode, mfaLoading,
                 pendingEmail, pendingPassword, registerUi, screen, rs, mv, lo, rg>>

\* The user fills the fields (onChangeText) and presses the button, which
\* is disabled while loading; the modal covers it while shown.
\* Empty field: alert and return.  Otherwise setLoading(true) and the POST.
LoginPress ==
  /\ screen = "login" /\ ~showMfaModal /\ ~loading /\ hl.pc = "idle"
  /\ \E c \in CredentialInputs :
       /\ email' = c[1]
       /\ password' = c[2]
       /\ IF c[1] = "" \/ c[2] = ""
            THEN /\ Track("ui", Event("hl", "handleLogin", "rejected", "errors.fillAllFields"),
                          "none", persisted)
                 /\ UNCHANGED <<hl, loading>>
            ELSE /\ CanStart
                 /\ loading' = TRUE
                 /\ hl' = [HlIdle EXCEPT !.pc = "post", !.email = c[1], !.password = c[2],
                                         !.preToken = token, !.preUser = user]
                 /\ Track("hl", Event("hl", "handleLogin", "start", ""), "none", persisted)
  /\ UNCHANGED <<provider, storage, showMfaModal, mfaCode, mfaLoading,
                 pendingEmail, pendingPassword, registerUi, screen, rs, mv, lo, rg>>

\* The answer to api.post('/auth/login', {email, password}).
LoginResponse ==
  /\ hl.pc = "post"
  /\ \E r \in LoginResponses :
       CASE r.kind = "mfa" ->
              /\ pendingEmail' = hl.email
              /\ pendingPassword' = hl.password
              /\ showMfaModal' = TRUE
              /\ loading' = FALSE
              /\ hl' = HlIdle
              /\ Track("hl", Event("hl", "handleLogin", "mfa", ""), "none", persisted)
         [] r.kind = "ok" ->
              /\ hl' = [hl EXCEPT !.pc = "setToken", !.sess = r.sess]
              /\ Track("hl", Event("hl", "handleLogin", "pending", ""), "none", persisted)
              /\ UNCHANGED <<pendingEmail, pendingPassword, showMfaModal, loading>>
         [] r.kind = "empty" ->
              /\ loading' = FALSE
              /\ hl' = HlIdle
              /\ Track("hl", Event("hl", "handleLogin", "silent", ""), "none", persisted)
              /\ UNCHANGED <<pendingEmail, pendingPassword, showMfaModal>>
         [] r.kind = "error" ->
              /\ loading' = FALSE
              /\ hl' = HlIdle
              /\ Track("hl", Rejection("hl", "handleLogin", r,
                                       Or3(r.detail, r.message, "Login failed")),
                       "none", persisted)
              /\ UNCHANGED <<pendingEmail, pendingPassword, showMfaModal>>
  /\ UNCHANGED <<provider, storage, loginForm, mfaCode, mfaLoading, registerUi, screen,
                 rs, mv, lo, rg>>

\* await setToken(response.data.access_token)
LoginSetToken ==
  /\ hl.pc = "setToken"
  /\ updateToken(hl.sess)
  /\ hl' = [hl EXCEPT !.pc = "setUser"]
  /\ Track("hl", Event("hl", "setToken", "ok", ""), "store", Null)
  /\ UNCHANGED <<user, authLoading, stUser, loginForm, loginUi, registerUi, screen,
                 rs, mv, lo, rg>>

\* await setUser(response.data.user); router.replace('/(tabs)'); finally.
LoginSetUser ==
  /\ hl.pc = "setUser"
  /\ updateUser(hl.sess)
  /\ screen' = "tabs"
  /\ loading' = FALSE
  /\ hl' = HlIdle
  /\ Track("hl", Event("hl", "handleLogin", "ok", ""), "store",
           IF "hl" \in iv THEN Null ELSE hl.sess)
  /\ UNCHANGED <<token, authLoading, stToken, loginForm, showMfaModal, mfaCode, mfaLoading,
                 pendingEmail, pendingPassword, registerUi, rs, mv, lo, rg>>

\* Mutant: the handler has no finally, so a storage error leaves loading set.
LoginStoreErrorKeepsBusy ==
  /\ hl.pc \in {"setToken", "setUser"}
  /\ loading' = loading
  /\ hl' = HlIdle
  /\ Track("hl", Event("hl", "handleLogin", "storeFail", Or3("", StorageError, "Login failed")),
           "none", persisted)
  /\ UNCHANGED <<provider, storage, loginForm, showMfaModal, mfaCode, mfaLoading,
                 pendingEmail, pendingPassword, registerUi, screen, rs, mv, lo, rg>>

\* The AsyncStorage.setItem inside setToken / setUser rejects: nothing is
\* stored or assigned by that call, the catch alerts, the finally clears loading.
LoginStoreError ==
  /\ hl.pc \in {"setToken", "setUser"}
  /\ loading' = FALSE
  /\ hl' = HlIdle
  /\ Track("hl", Event("hl", "handleLogin", "storeFail", Or3("", StorageError, "Login failed")),
           "none", persisted)
  /\ UNCHANGED <<provider, storage, loginForm, showMfaModal, mfaCode, mfaLoading,
                 pendingEmail, pendingPassword, registerUi, screen, rs, mv, lo, rg>>

----------------------------------------------------------------------------
\* handleMfaVerify.

\* The code field of the modal (onChangeText={setMfaCode}, maxLength 6).
TypeMfaCode ==
  /\ screen = "login" /\ showMfaModal
  /\ \E c \in CodeInputs : mfaCode' = c
  /\ mfaCode' # mfaCode
  /\ Track("ui", Event("ui", "type", "none", ""), "none", persisted)
  /\ UNCHANGED <<provider, storage, loginForm, loading, showMfaModal, mfaLoading,
                 pendingEmail, pendingPassword, registerUi, screen, rs, hl, mv, lo, rg>>

\* handleMfaVerify is called while no verification is in flight (the Verify
\* button, inside the modal, is disabled while mfaLoading; it is one caller).
\* A code that is empty or not 6 characters long: alert and return.
\* Otherwise setMfaLoading(true) and the POST with the pending credential.
MfaVerifyPress ==
  /\ screen = "login" /\ ~mfaLoading /\ mv.pc = "idle"
  /\ IF mfaCode = <<>> \/ Len(mfaCode) # MfaCodeLen
       THEN /\ Track("ui", Event("mv", "handleMfaVerify", "rejected",
                                 "Please enter a valid 6-digit code"), "none", persisted)
            /\ UNCHANGED <<mv, mfaLoading>>
       ELSE /\ CanStart
            /\ mfaLoading' = TRUE
            /\ mv' = [MvIdle EXCEPT !.pc = "post", !.email = pendingEmail,
                                    !.password = pendingPassword, !.code = mfaCode,
                                    !.preToken = token, !.preUser = user]
            /\ Track("mv", Event("mv", "handleMfaVerify", "start", ""), "none", persisted)
  /\ UNCHANGED <<provider, storage, loginForm, loading, showMfaModal, mfaCode,
                 pendingEmail, pendingPassword, registerUi, screen, rs, hl, lo, rg>>

\* Mutant: a failed verification ends the MFA flow as a cancel does.
MfaResponseFailureCancels ==
  /\ mv.pc = "post"
  /\ \E r \in LoginResponses :
       CASE r.kind = "ok" ->
              /\ mv' = [mv EXCEPT !.pc = "setToken", !.sess = r.sess]
              /\ Track("mv", Event("mv", "handleMfaVerify", "pending", ""), "none", persisted)
              /\ UNCHANGED <<mfaLoading, showMfaModal, mfaCode, pendingEmail, pendingPassword>>
         [] r.kind \in {"mfa", "empty"} ->
              /\ mfaLoading' = FALSE
              /\ mv' = MvIdle
              /\ Track("mv", Event("mv", "handleMfaVerify", "silent", ""), "none", persisted)
              /\ UNCHANGED <<showMfaModal, mfaCode, pendingEmail, pendingPassword>>
         [] r.kind = "error" ->
              /\ mfaLoading' = FALSE
              /\ mv' = MvIdle
              /\ showMfaModal' = FALSE /\ mfaCode' = <<>>
              /\ pendingEmail' = "" /\ pendingPassword' = ""
              /\ Track("mv", Rejection("mv", "handleMfaVerify", r,
                                       Or3(r.detail, "", "Invalid MFA code")),
                       "none", persisted)
  /\ UNCHANGED <<provider, storage, loginForm, loading, registerUi, screen, rs, hl, lo, rg>>

\* The answer to api.post('/auth/login', {email, password, mfa_code}).
MfaResponse ==
  /\ mv.pc = "post"
  /\ \E r \in LoginResponses :
       CASE r.kind = "ok" ->
              /\ mv' = [mv EXCEPT !.pc = "setToken", !.sess = r.sess]
              /\ Track("mv", Event("mv", "handleMfaVerify", "pending", ""), "none", persisted)
              /\ UNCHANGED mfaLoading
         [] r.kind \in {"mfa", "empty"} ->
              /\ mfaLoading' = FALSE
              /\ mv' = MvIdle
              /\ Track("mv", Event("mv", "handleMfaVerify", "silent", ""), "none", persisted)
         [] r.kind = "error" ->
              /\ mfaLoading' = FALSE
              /\ mv' = MvIdle
              /\ Track("mv", Rejection("mv", "handleMfaVerify", r,
                                       Or3(r.detail, "", "Invalid MFA code")),
                       "none", persisted)
  /\ UNCHANGED <<provider, storage, loginForm, loading, showMfaModal, mfaCode,
                 pendingEmail, pendingPassword, registerUi, screen, rs, hl, lo, rg>>

\* await setToken(response.data.access_token)
MfaSetToken ==
  /\ mv.pc = "setToken"
  /\ updateToken(mv.sess)
  /\ mv' = [mv EXCEPT !.pc = "setUser"]
  /\ Track("mv", Event("mv", "setToken", "ok", ""), "store", Null)
  /\ UNCHANGED <<user, authLoading, stUser, loginForm, loginUi, registerUi, screen,
                 rs, hl, lo, rg>>

\* await setUser(response.data.user); setShowMfaModal(false); setMfaCode('');
\* router.replace('/(tabs)'); finally.
MfaSetUser ==
  /\ mv.pc = "setUser"
  /\ updateUser(mv.sess)
  /\ showMfaModal' = FALSE
  /\ mfaCode' = <<>>
  /\ screen' = "tabs"
  /\ mfaLoading' = FALSE
  /\ mv' = MvIdle
  /\ Track("mv", Event("mv", "handleMfaVerify", "ok", ""), "store",
           IF "mv" \in iv THEN Null ELSE mv.sess)
  /\ UNCHANGED <<token, authLoading, stToken, loginForm, loading,
                 pendingEmail, pendingPassword, registerUi, rs, hl, lo, rg>>

\* Mutant: the handler has no finally, so an error leaves mfaLoading set.
MfaStoreErrorKeepsBusy ==
  /\ mv.pc \in {"setToken", "setUser"}
  /\ mfaLoading' = mfaLoading
  /\ mv' = MvIdle
  /\ Track("mv", Event("mv", "handleMfaVerify", "storeFail", "Invalid MFA code"),
           "none", persisted)
  /\ UNCHANGED <<provider, storage, loginForm, loading, showMfaModal, mfaCode,
                 pendingEmail, pendingPassword, registerUi, screen, rs, hl, lo, rg>>

\* The setItem inside setToken / setUser rejects: the catch alerts (the error
\* carries no response), the finally clears mfaLoading.
MfaStoreError ==
  /\ mv.pc \in {"setToken", "setUser"}
  /\ mfaLoading' = FALSE
  /\ mv' = MvIdle
  /\ Track("mv", Event("mv", "handleMfaVerify", "storeFail", "Invalid MFA code"),
           "none", persisted)
  /\ UNCHANGED <<provider, storage, loginForm, loading, showMfaModal, mfaCode,
                 pendingEmail, pendingPassword, registerUi, screen, rs, hl, lo, rg>>

\* Mutant: the cancel path forgets setMfaCode('').
handleCancelMfaKeepsCode ==
  /\ showMfaModal' = FALSE
  /\ mfaCode' = mfaCode
  /\ pendingEmail' = ""
  /\ pendingPassword' = ""

\* Mutant: the cancel path keeps the pending password.
handleCancelMfaKeepsPassword ==
  /\ showMfaModal' = FALSE
  /\ mfaCode' = <<>>
  /\ pendingEmail' = ""
  /\ pendingPassword' = pendingPassword

\* handleCancelMfa: the four assignments.
handleCancelMfa ==
  /\ showMfaModal' = FALSE
  /\ mfaCode' = <<>>
  /\ pendingEmail' = ""
  /\ pendingPassword' = ""

\* The Cancel button of the modal (disabled while mfaLoading).
CancelButton ==
  /\ showMfaModal /\ ~mfaLoading
  /\ handleCancelMfa
  /\ Track("ui", Event("ui", "handleCancelMfa", "ok", "button"), "none", persisted)
  /\ UNCHANGED <<provider, storage, loginForm, loading, mfaLoading, registerUi, screen,
                 rs, hl, mv, lo, rg>>

\* The modal's onRequestClose (hardware back): not disabled by mfaLoading.
ModalRequestClose ==
  /\ showMfaModal
  /\ handleCancelMfa
  /\ Track("ui", Event("ui", "handleCancelMfa", "ok", "requestClose"), "none", persisted)
  /\ UNCHANGED <<provider, storage, loginForm, loading, mfaLoading, registerUi, screen,
                 rs, hl, mv, lo, rg>>

----------------------------------------------------------------------------
\* Profile screen: handleLogout (the confirmed alert's onPress) and the
\* provider's logout.

LogoutPress ==
  /\ screen = "tabs" /\ lo.pc = "idle" /\ CanStart
  /\ lo' = [LoIdle EXCEPT !.pc = "post", !.auth = Authenticated]
  /\ Track("lo", Event("lo", "handleLogout", "start", ""), "none", persisted)
  /\ UNCHANGED <<provider, storage, loginForm, loginUi, registerUi, screen, rs, hl, mv, rg>>

\* Mutant: the catch block rethrows, so a failed notification ends the handler.
LogoutNotifyRethrows ==
  /\ lo.pc = "post"
  /\ \E failed \in BOOLEAN :
       IF failed
         THEN /\ lo' = [lo EXCEPT !.pc = "idle", !.apiFailed = TRUE]
              /\ Track("lo", Event("lo", "handleLogout", "apiFail", ""), "none", persisted)
         ELSE /\ lo' = [lo EXCEPT !.pc = "removeToken", !.apiFailed = FALSE]
              /\ Track("lo", Event("lo", "handleLogout", "pending", ""), "none", persisted)
  /\ UNCHANGED <<provider, storage, loginForm, loginUi, registerUi, screen, rs, hl, mv, rg>>

\* try { await api.post('/auth/logout') } catch (e) { /* ignored */ }
LogoutNotify ==
  /\ lo.pc = "post"
  /\ \E failed \in BOOLEAN : lo' = [lo EXCEPT !.pc = "removeToken", !.apiFailed = failed]
  /\ Track("lo", Event("lo", "handleLogout", "pending", ""), "none", persisted)
  /\ UNCHANGED <<provider, storage, loginForm, loginUi, registerUi, screen, rs, hl, mv, rg>>

\* await AsyncStorage.removeItem('token')
LogoutRemoveToken ==
  /\ lo.pc = "removeToken"
  /\ stToken' = Absent
  /\ lo' = [lo EXCEPT !.pc = "removeUser"]
  /\ Track("lo", Event("lo", "handleLogout", "pending", ""), "store", Null)
  /\ UNCHANGED <<provider, stUser, loginForm, loginUi, registerUi, screen, rs, hl, mv, rg>>

\* Mutant: logout forgets setUser(null).
LogoutRemoveUserKeepsUser ==
  /\ lo.pc = "removeUser"
  /\ stUser' = Absent
  /\ token' = Null
  /\ screen' = "login"
  /\ lo' = [lo EXCEPT !.pc = "idle"]
  /\ Track("lo", Event("lo", "logout", "ok", ""), "store", Null)
  /\ UNCHANGED <<user, authLoading, stToken, loginForm, loginUi, registerUi, rs, hl, mv, rg>>

\* await AsyncStorage.removeItem('user'); setToken(null); setUser(null);
\* then router.replace('/(auth)/login').
LogoutRemoveUser ==
  /\ lo.pc = "removeUser"
  /\ stUser' = Absent
  /\ token' = Null
  /\ user' = Null
  /\ screen' = "login"
  /\ lo' = [lo EXCEPT !.pc = "idle"]
  /\ Track("lo", Event("lo", "logout", "ok", ""), "store", Null)
  /\ UNCHANGED <<authLoading, stToken, loginForm, loginUi, registerUi, rs, hl, mv, rg>>

\* A removeItem rejects: logout() rejects, nothing catches it, no navigation.
LogoutStoreError ==
  /\ lo.pc \in {"removeToken", "removeUser"}
  /\ lo' = [lo EXCEPT !.pc = "idle"]
  /\ Track("lo", Event("lo", "logout", "storeFail", ""), "none", persisted)
  /\ UNCHANGED <<provider, storage, loginForm, loginUi, registerUi, screen, rs, hl, mv, rg>>

----------------------------------------------------------------------------
\* Register screen: handleRegister and the provider's register.

GoRegister ==
  /\ screen = "login" /\ ~showMfaModal
  /\ screen' = "register"
  /\ Track("ui", Event("ui", "navigate", "none", ""), "none", persisted)
  /\ UNCHANGED <<provider, storage, loginForm, loginUi, registerUi, rs, hl, mv, lo, rg>>

RegisterBack ==
  /\ screen = "register"
  /\ screen' = "login"
  /\ Track("ui", Event("ui", "navigate", "none", ""), "none", persisted)
  /\ UNCHANGED <<provider, storage, loginForm, loginUi, registerUi, rs, hl, mv, lo, rg>>

\* The user fills the form and presses the button (disabled while loading).
RegisterPress ==
  /\ screen = "register" /\ ~regLoading /\ rg.pc = "idle"
  /\ \E f \in RegisterInputs :
       /\ regForm' = f
       /\ IF f[1] = "" \/ f[2] = "" \/ f[3] = ""
            THEN /\ Track("ui", Event("rg", "handleRegister", "rejected",
                                      "Please fill in all fields"), "none", persisted)
                 /\ UNCHANGED <<rg, regLoading>>
            ELSE /\ CanStart
                 /\ regLoading' = TRUE
                 /\ rg' = [RgIdle EXCEPT !.pc = "post", !.preToken = token, !.preUser = user]
                 /\ Track("rg", Event("rg", "handleRegister", "start", ""), "none", persisted)
  /\ UNCHANGED <<provider, storage, loginForm, loginUi, screen, rs, hl, mv, lo>>

\* The answer to axios.post('/api/auth/register', ...).
RegisterResponse ==
  /\ rg.pc = "post"
  /\ \E r \in OkResponses \cup ErrorResponses :
       IF r.kind = "ok"
         THEN /\ rg' = [rg EXCEPT !.pc = "setToken", !.sess = r.sess]
              /\ Track("rg", Event("rg", "register", "pending", ""), "none", persisted)
              /\ UNCHANGED regLoading
         ELSE /\ regLoading' = FALSE
              /\ rg' = RgIdle
              /\ Track("rg", Rejection("rg", "register", r,
                                       Or3(r.detail, "", "Registration failed")),
                       "none", persisted)
  /\ UNCHANGED <<provider, storage, loginForm, loginUi, regForm, screen, rs, hl, mv, lo>>

\* Mutant: register assigns the token as soon as it is stored.
RegisterSetTokenEager ==
  /\ rg.pc = "setToken"
  /\ stToken' = Str(rg.sess)
  /\ token' = rg.sess
  /\ rg' = [rg EXCEPT !.pc = "setUser"]
  /\ Track("rg", Event("rg", "register", "pending", ""), "store", Null)
  /\ UNCHANGED <<user, authLoading, stUser, loginForm, loginUi, registerUi, screen,
                 rs, hl, mv, lo>>

\* await AsyncStorage.setItem('token', access_token)
RegisterSetToken ==
  /\ rg.pc = "setToken"
  /\ stToken' = Str(rg.sess)
  /\ rg' = [rg EXCEPT !.pc = "setUser"]
  /\ Track("rg", Event("rg", "register", "pending", ""), "store", Null)
  /\ UNCHANGED <<provider, stUser, loginForm, loginUi, registerUi, screen, rs, hl, mv, lo>>

\* await AsyncStorage.setItem('user', JSON.stringify(userData)); setToken;
\* setUser; then router.replace('/(auth)/gdpr-consent?from=register'); finally.
RegisterSetUser ==
  /\ rg.pc = "setUser"
  /\ stUser' = JSONstringify(rg.sess)
  /\ token' = rg.sess
  /\ user' = rg.sess
  /\ screen' = "gdpr"
  /\ regLoading' = FALSE
  /\ rg' = RgIdle
  /\ Track("rg", Event("rg", "register", "ok", ""), "store", Null)
  /\ UNCHANGED <<authLoading, stToken, loginForm, loginUi, regForm, rs, hl, mv, lo>>

\* A setItem rejects: register throws Error('Registration failed'), the
\* screen alerts its message, the finally clears loading.
RegisterStoreError ==
  /\ rg.pc \in {"setToken", "setUser"}
  /\ regLoading' = FALSE
  /\ rg' = RgIdle
  /\ Track("rg", Event("rg", "register", "storeFail", "Registration failed"),
           "none", persisted)
  /\ UNCHANGED <<provider, storage, loginForm, loginUi, regForm, screen, rs, hl, mv, lo>>

----------------------------------------------------------------------------
\* GDPR consent screen, opened by handleRegister with from=register (the only
\* navigation to it in the sources).

ConsentKeys == {"dataProcessing", "dataStorage", "analytics", "marketing"}

\* const allRequired = consents.dataProcessing && consents.dataStorage
allRequired(c) == c.dataProcessing /\ c.dataStorage

\* What JSON.stringify({...consents, timestamp}) stores.
ConsentRecord(c) ==
  [dataProcessing |-> c.dataProcessing, dataStorage |-> c.dataStorage,
   analytics |-> c.analytics, marketing |-> c.marketing, timestamp |-> "now"]

\* A Switch: onValueChange={(value) => setConsents({...consents, key: value})}
ToggleConsent ==
  /\ screen = "gdpr"
  /\ \E k \in ConsentKeys : consents' = [consents EXCEPT ![k] = ~consents[k]]
  /\ Note(Event("ui", "toggle", "none", ""))
  /\ UNCHANGED <<session, registerUi, rg, screen, stConsent, gc, tenderUi>>

handleAcceptAll ==
  /\ screen = "gdpr"
  /\ consents' = [k \in ConsentKeys |-> TRUE]
  /\ consents' # consents
  /\ Note(Event("ui", "handleAcceptAll", "none", ""))
  /\ UNCHANGED <<session, registerUi, rg, screen, stConsent, gc, tenderUi>>

\* handleContinue is called: without both required consents it alerts and
\* returns; otherwise the POST of the consents goes out.
ContinuePress ==
  /\ screen = "gdpr" /\ gc.pc = "idle"
  /\ IF ~allRequired(consents)
       THEN /\ Note(Event("gc", "handleContinue", "rejected", "Erforderliche Zustimmung"))
            /\ UNCHANGED gc
       ELSE /\ gc' = [pc |-> "post", consents |-> consents]
            /\ Note(Event("gc", "handleContinue", "start", ""))
  /\ UNCHANGED <<session, registerUi, rg, screen, consents, stConsent, tenderUi>>

\* Mutant: the local write follows the POST whether it succeeded or not.
ContinueResponseIgnoresFailure ==
  /\ gc.pc = "post"
  /\ \E ok \in BOOLEAN :
       /\ gc' = [gc EXCEPT !.pc = "setItem"]
       /\ Note(Event("gc", "handleContinue", IF ok THEN "pending" ELSE "apiFail", ""))
  /\ UNCHANGED <<session, registerUi, rg, screen, consents, stConsent, tenderUi>>

\* The answer to api.post('/auth/gdpr-consent', consents).
ContinueResponse ==
  /\ gc.pc = "post"
  /\ \E ok \in BOOLEAN :
       IF ok
         THEN /\ gc' = [gc EXCEPT !.pc = "setItem"]
              /\ Note(Event("gc", "handleContinue", "pending", ""))
         ELSE /\ gc' = GcIdle
              /\ Note(Event("gc", "handleContinue", "apiFail",
                            "Fehler beim Speichern der Einwilligung"))
  /\ UNCHANGED <<session, registerUi, rg, screen, consents, stConsent, tenderUi>>

\* await AsyncStorage.setItem('gdpr_consent', ...), then
\* router.replace('/(tabs)') (params.from === 'register'); or the setItem
\* rejects and the catch alerts.
ContinueSetItem ==
  /\ gc.pc = "setItem"
  /\ gc' = GcIdle
  /\ \E resolved \in BOOLEAN :
       IF resolved
         THEN /\ stConsent' = {ConsentRecord(gc.consents)}
              /\ screen' = "tabs"
              /\ Note(Event("gc", "handleContinue", "ok", ""))
         ELSE /\ UNCHANGED <<stConsent, screen>>
              /\ Note(Event("gc", "handleContinue", "storeFail",
                            "Fehler beim Speichern der Einwilligung"))
  /\ UNCHANGED <<session, registerUi, rg, consents, tenderUi>>

----------------------------------------------------------------------------
\* Tender detail screen: the tender as fetched, and handleClaim.

\* fetchTenderDetail: the tender arrives, unclaimed or claimed by some user,
\* or the request fails and the tender stays null.
FetchTender ==
  /\ ~tender.loaded
  /\ \E ok \in BOOLEAN, holder \in Sessions \cup {Null} :
       IF ok
         THEN /\ tender' = [loaded |-> TRUE, claimed_by |-> holder]
              /\ Note(Event("ui", "fetchTenderDetail", "ok", ""))
         ELSE /\ holder = Null
              /\ UNCHANGED tender
              /\ Note(Event("ui", "fetchTenderDetail", "apiFail",
                            "Failed to load tender details"))
  /\ UNCHANGED <<session, registerUi, rg, screen, gdprUi, isClaiming, hc>>

\* The number a new call in flight gets.
FreeSlot == CHOOSE n \in 1..(MaxInFlight + 1) : \A h \in hc : h.n # n

\* Mutant: a claimed tender is released whoever holds the claim.
ClaimPressReleasesAny ==
  /\ IF ~tender.loaded
       THEN /\ Note(Event("hc", "handleClaim", "rejected", ""))
            /\ UNCHANGED <<hc, isClaiming>>
       ELSE IF tender.claimed_by # Null /\ ~(TRUE)
         THEN /\ isClaiming' = FALSE
              /\ Note(Event("hc", "handleClaim", "info", "This tender is being handled by"))
              /\ UNCHANGED hc
         ELSE /\ Cardinality(hc) < MaxInFlight
              /\ isClaiming' = TRUE
              /\ hc' = hc \cup {[n |-> FreeSlot,
                                  req |-> IF tender.claimed_by # Null THEN "delete" ELSE "post",
                                  uid |-> user]}
              /\ Note(Event("hc", "handleClaim", "start", ""))
  /\ UNCHANGED <<session, registerUi, rg, screen, gdprUi, tender>>

\* handleClaim is called.  No tender: return.  Claimed by the current user
\* (user?.id): the DELETE goes out.  Claimed by someone else: the alert, and
\* the finally.  Unclaimed: the POST goes out.
ClaimPress ==
  /\ IF ~tender.loaded
       THEN /\ Note(Event("hc", "handleClaim", "rejected", ""))
            /\ UNCHANGED <<hc, isClaiming>>
       ELSE IF tender.claimed_by # Null /\ ~(tender.claimed_by = user)
         THEN /\ isClaiming' = FALSE
              /\ Note(Event("hc", "handleClaim", "info", "This tender is being handled by"))
              /\ UNCHANGED hc
         ELSE /\ Cardinality(hc) < MaxInFlight
              /\ isClaiming' = TRUE
              /\ hc' = hc \cup {[n |-> FreeSlot,
                                  req |-> IF tender.claimed_by # Null THEN "delete" ELSE "post",
                                  uid |-> user]}
              /\ Note(Event("hc", "handleClaim", "start", ""))
  /\ UNCHANGED <<session, registerUi, rg, screen, gdprUi, tender>>

\* The answer to the DELETE or POST of a call in flight: setTender with the
\* new claimed_by and the alert, or the catch's alert; then the finally.
ClaimResponse ==
  /\ \E h \in hc, ok \in BOOLEAN :
       /\ hc' = hc \ {h}
       /\ IF ok
            THEN /\ tender' = [tender EXCEPT
                                 !.claimed_by = IF h.req = "delete" THEN Null ELSE h.uid]
                 /\ Note(Event("hc", "handleClaim", "ok", h.req))
            ELSE /\ UNCHANGED tender
                 /\ Note(Event("hc", "handleClaim", "apiFail",
                               "Failed to update claim status"))
  /\ isClaiming' = FALSE
  /\ UNCHANGED <<session, registerUi, rg, screen, gdprUi>>

----------------------------------------------------------------------------
\* The process is killed and started again: memory is lost, the store stays.
Restart ==
  /\ user' = Null /\ token' = Null /\ authLoading' = TRUE
  /\ email' = "" /\ password' = "" /\ loading' = FALSE
  /\ showMfaModal' = FALSE /\ mfaCode' = <<>> /\ mfaLoading' = FALSE
  /\ pendingEmail' = "" /\ pendingPassword' = ""
  /\ regForm' = <<"", "", "">> /\ regLoading' = FALSE
  /\ screen' \in {"login", "tabs"}
  /\ rs' = RsStart /\ hl' = HlIdle /\ mv' = MvIdle /\ lo' = LoIdle /\ rg' = RgIdle
  /\ consents' = NoConsents /\ gc' = GcIdle
  /\ tender' = NoTender /\ isClaiming' = FALSE /\ hc' = {}
  /\ ev' = Event("ui", "mount", "none", "")
  /\ iv' = {}
  /\ UNCHANGED <<storage, stConsent, persisted>>

----------------------------------------------------------------------------
\* The session machine: restore, login, second factor, logout, restart.
Next ==
  \/ RestoreGetToken
  \/ RestoreGetUser
  \/ RestoreReadError
  \/ LoginPress
  \/ LoginResponse
  \/ LoginSetToken
  \/ LoginSetUser
  \/ LoginStoreError
  \/ TypeMfaCode
  \/ MfaVerifyPress
  \/ MfaResponse
  \/ MfaSetToken
  \/ MfaSetUser
  \/ MfaStoreError
  \/ CancelButton
  \/ ModalRequestClose
  \/ LogoutPress
  \/ LogoutNotify
  \/ LogoutRemoveToken
  \/ LogoutRemoveUser
  \/ LogoutStoreError
  \/ Restart

Spec == Init /\ [][Next]_vars

----------------------------------------------------------------------------
\* One process lifetime: the session machine without the restart.
NextProcess ==
  \/ RestoreGetToken
  \/ RestoreGetUser
  \/ RestoreReadError
  \/ LoginPress
  \/ LoginResponse
  \/ LoginSetToken
  \/ LoginSetUser
  \/ LoginStoreError
  \/ TypeMfaCode
  \/ MfaVerifyPress
  \/ MfaResponse
  \/ MfaSetToken
  \/ MfaSetUser
  \/ MfaStoreError
  \/ CancelButton
  \/ ModalRequestClose
  \/ LogoutPress
  \/ LogoutNotify
  \/ LogoutRemoveToken
  \/ LogoutRemoveUser
  \/ LogoutStoreError

\* A step of loadStoredAuth: a pending getItem settles (resolves or rejects).
RestoreStep == RestoreGetToken \/ RestoreGetUser \/ RestoreReadError

\* AsyncStorage settles every read: a pending getItem is not left pending
\* forever.
SpecFair == Init /\ [][NextProcess]_vars /\ WF_vars(RestoreStep)

\* Steps by which a request or storage call of a handler in flight settles.
LoginSettles == LoginResponse \/ LoginSetToken \/ LoginSetUser \/ LoginStoreError

MfaSettles == MfaResponse \/ MfaSetToken \/ MfaSetUser \/ MfaStoreError

LogoutSettles == LogoutNotify \/ LogoutRemoveToken \/ LogoutRemoveUser \/ LogoutStoreError

\* The session machine with every possibility eventually taken: pending
\* requests and storage calls settle, a user at rest eventually logs in or
\* out, and an outcome that is possible again and again with nothing else in
\* flight (the prompt closed, a login answered with a token, a storage call
\* that resolves) eventually happens.  Every finite run can be continued
\* this way, so what recurs in every behaviour of this specification can be
\* reached from every reachable state.
SpecCycle ==
  /\ Init /\ [][NextProcess]_vars
  /\ WF_vars(RestoreStep)
  /\ WF_vars(LoginSettles)
  /\ WF_vars(MfaSettles)
  /\ WF_vars(LogoutSettles)
  /\ WF_vars(LoginPress /\ hl'.pc = "post")
  /\ WF_vars(LogoutPress)
  /\ SF_vars(ModalRequestClose /\ Live = {})
  /\ SF_vars(LoginResponse /\ hl'.pc = "setToken" /\ Live = {"hl"})
  /\ SF_vars(LoginSetToken /\ Live = {"hl"})
  /\ SF_vars(LoginSetUser /\ Live = {"hl"})
  /\ SF_vars(LogoutRemoveToken /\ Live = {"lo"})
  /\ SF_vars(LogoutRemoveUser /\ Live = {"lo"})

----------------------------------------------------------------------------
\* Onboarding: the startup restore, the Register screen and the GDPR consent
\* screen it leads to.
NextRegister ==
  \/ RestoreGetToken
  \/ RestoreGetUser
  \/ RestoreReadError
  \/ GoRegister
  \/ RegisterBack
  \/ RegisterPress
  \/ RegisterResponse
  \/ RegisterSetToken
  \/ RegisterSetUser
  \/ RegisterStoreError
  \/ ToggleConsent
  \/ handleAcceptAll
  \/ ContinuePress
  \/ ContinueResponse
  \/ ContinueSetItem

SpecRegister == Init /\ [][NextRegister]_vars

----------------------------------------------------------------------------
\* The tender detail screen under the provider: the startup restore gives
\* the current user.
NextTender ==
  \/ RestoreGetToken
  \/ RestoreGetUser
  \/ RestoreReadError
  \/ FetchTender
  \/ ClaimPress
  \/ ClaimResponse

SpecTender == Init /\ [][NextTender]_vars

----------------------------------------------------------------------------
\* The provider's operations called directly by a consumer of the context
\* (useAuth()): login, setToken (updateToken), setUser (updateUser).

\* login(email, password): the POST goes out.
CtxLoginCall ==
  /\ hl.pc = "idle" /\ CanStart
  /\ \E c \in CredentialInputs :
       hl' = [HlIdle EXCEPT !.pc = "ctxPost", !.email = c[1], !.password = c[2],
                            !.preToken = token, !.preUser = user]
  /\ Track("hl", Event("hl", "login", "start", ""), "none", persisted)
  /\ UNCHANGED <<provider, storage, loginForm, loginUi, registerUi, screen, rs, mv, lo, rg>>

\* The answer to axios.post('/api/auth/login'): the body is destructured, or
\* the catch throws Error(detail || 'Login failed').
CtxLoginResponse ==
  /\ hl.pc = "ctxPost"
  /\ \E r \in OkResponses \cup ErrorResponses :
       IF r.kind = "ok"
         THEN /\ hl' = [hl EXCEPT !.pc = "ctxSetItemToken", !.sess = r.sess]
              /\ Track("hl", Event("hl", "login", "pending", ""), "none", persisted)
         ELSE /\ hl' = HlIdle
              /\ Track("hl", Rejection("hl", "login", r, Or3(r.detail, "", "Login failed")),
                       "none", persisted)
  /\ UNCHANGED <<provider, storage, loginForm, loginUi, registerUi, screen, rs, mv, lo, rg>>

\* await AsyncStorage.setItem('token', access_token)
CtxLoginSetItemToken ==
  /\ hl.pc = "ctxSetItemToken"
  /\ stToken' = Str(hl.sess)
  /\ hl' = [hl EXCEPT !.pc = "ctxSetItemUser"]
  /\ Track("hl", Event("hl", "login", "pending", ""), "store", Null)
  /\ UNCHANGED <<provider, stUser, loginForm, loginUi, registerUi, screen, rs, mv, lo, rg>>

\* await AsyncStorage.setItem('user', JSON.stringify(userData)); setToken; setUser.
CtxLoginSetItemUser ==
  /\ hl.pc = "ctxSetItemUser"
  /\ stUser' = JSONstringify(hl.sess)
  /\ token' = hl.sess
  /\ user' = hl.sess
  /\ hl' = HlIdle
  /\ Track("hl", Event("hl", "login", "ok", ""), "store",
           IF "hl" \in iv THEN Null ELSE hl.sess)
  /\ UNCHANGED <<authLoading, stToken, loginForm, loginUi, registerUi, screen, rs, mv, lo, rg>>

\* A setItem rejects: the catch throws Error('Login failed').
CtxLoginStoreError ==
  /\ hl.pc \in {"ctxSetItemToken", "ctxSetItemUser"}
  /\ hl' = HlIdle
  /\ Track("hl", Event("hl", "login", "storeFail", "Login failed"), "none", persisted)
  /\ UNCHANGED <<provider, storage, loginForm, loginUi, registerUi, screen, rs, mv, lo, rg>>

\* setToken(newToken) with any argument of its type (string | null).  The
\* storage call rejects (nothing changes, the promise rejects) or resolves.
SetTokenCall ==
  /\ \E newToken \in Sessions \cup {Null}, resolved \in BOOLEAN :
       IF resolved
         THEN /\ updateToken(newToken)
              /\ Track("ui", Event("ctx", "setToken", "ok", ""), "store", Null)
         ELSE /\ UNCHANGED <<token, stToken>>
              /\ Track("ui", Event("ctx", "setToken", "storeFail", StorageError),
                       "none", persisted)
  /\ UNCHANGED <<user, authLoading, stUser, loginForm, loginUi, registerUi, screen,
                 rs, hl, mv, lo, rg>>

\* setUser(newUser) with any argument of its type (User | null).
SetUserCall ==
  /\ \E newUser \in Sessions \cup {Null}, resolved \in BOOLEAN :
       IF resolved
         THEN /\ updateUser(newUser)
              /\ Track("ui", Event("ctx", "setUser", "ok", ""), "store", Null)
         ELSE /\ UNCHANGED <<user, stUser>>
              /\ Track("ui", Event("ctx", "setUser", "storeFail", StorageError),
                       "none", persisted)
  /\ UNCHANGED <<token, authLoading, stToken, loginForm, loginUi, registerUi, screen,
                 rs, hl, mv, lo, rg>>

\* The provider on its own: restore, login, the two setters, restart.
NextProvider ==
  \/ RestoreGetToken
  \/ RestoreGetUser
  \/ RestoreReadError
  \/ CtxLoginCall
  \/ CtxLoginResponse
  \/ CtxLoginSetItemToken
  \/ CtxLoginSetItemUser
  \/ CtxLoginStoreError
  \/ SetTokenCall
  \/ SetUserCall
  \/ Restart

SpecProvider == Init /\ [][NextProvider]_vars

----------------------------------------------------------------------------
\* Properties.

\* A handler's run was undisturbed: no other handler wrote the token, the
\* user or the store while it was in flight.
Undisturbed(h) == h \notin iv

\* Nothing of a session is left, in memory or in the store.
Cleared == token = Null /\ user = Null /\ stToken = Absent /\ stUser = Absent

\* C1 (atomicity): at every instant the in-memory token is present iff the
\* in-memory user is present, and exactly then the session is authenticated.
C1_Atomicity ==
  /\ (token # Null) <=> (user # Null)
  /\ Authenticated <=> (token # Null)

\* C2 (persisted-store consistency): whenever a store-writing operation
\* (login, register, verifySecondFactor, logout, setUser, setToken) has just
\* settled successfully, the store holds both keys or neither.
C2_StoreConsistent ==
  (ev.out = "ok" /\ ev.op \in {"handleLogin", "handleMfaVerify", "register", "logout",
                              "setToken", "setUser"})
    => ((stToken = Absent) <=> (stUser = Absent))

\* C3 (corrupt data on restore): when loadStoredAuth found a token and a user
\* text that does not parse, it settles with token and user both absent.
C3_CorruptRestore ==
  (ev.by = "rs" /\ ev.op = "restore" /\ ev.out = "parseError" /\ Undisturbed("rs"))
    => (token = Null /\ user = Null)

\* C4 (MFA gating): a call of handleMfaVerify while the MFA prompt is not
\* shown is rejected: it sends no request (no verification goes in flight)
\* and changes neither the in-memory nor the persisted token and user.
C4_MfaGating ==
  [][ (ev'.by = "mv" /\ ev'.op = "handleMfaVerify" /\ ev'.out \in {"rejected", "start"}
       /\ ~showMfaModal)
        => (/\ ev'.out = "rejected"
            /\ mv' = mv /\ mv.pc = "idle" /\ mfaLoading' = FALSE
            /\ UNCHANGED <<token, user, stToken, stUser>>) ]_vars

\* C4 witness: handleMfaVerify was called with the prompt closed and rejected.
C4_Witness ==
  /\ ev.by = "mv" /\ ev.op = "handleMfaVerify" /\ ev.out = "rejected"
  /\ ~showMfaModal /\ mv.pc = "idle"

\* C5 (mutual exclusion): at most one of restore, login, verifySecondFactor
\* and logout is in flight at a time.
C5_MutualExclusion == Cardinality(Live \cap {"rs", "hl", "mv", "lo"}) <= 1

\* C6 (no credential leakage): right after a verification made the session
\* authenticated, or a cancel ended the MFA flow, no pending e-mail or
\* password is held.
C6_NoCredentialLeak ==
  (\/ ev.by = "mv" /\ ev.op = "handleMfaVerify" /\ ev.out = "ok"
   \/ ev.op = "handleCancelMfa")
    => (pendingPassword = "" /\ pendingEmail = "")

\* C7 (rollback): when a store write fails during the token+user persistence
\* of a login or a verification that ran undisturbed, the in-memory token and
\* user are what they were when the attempt started.
C7_Rollback ==
  [][ /\ (ev'.by = "hl" /\ ev'.out = "storeFail" /\ Undisturbed("hl")')
          => (token' = hl.preToken /\ user' = hl.preUser)
      /\ (ev'.by = "mv" /\ ev'.out = "storeFail" /\ Undisturbed("mv")')
          => (token' = mv.preToken /\ user' = mv.preUser) ]_vars

\* C8 (logout clears everything, idempotent): whatever the state logout()
\* started in, once it has completed undisturbed the in-memory token and user
\* and both persisted keys are absent and the login screen is shown; a logout
\* of an already cleared session ends in the same state.
C8_LogoutClears ==
  (ev.by = "lo" /\ ev.op = "logout" /\ ev.out = "ok" /\ Undisturbed("lo"))
    => (Cleared /\ ~Authenticated /\ screen = "login" /\ lo.pc = "idle")

\* C8 witness: a completed logout of a session that was not authenticated
\* when it started (nothing to clear in memory).
C8_Witness ==
  /\ ev.by = "lo" /\ ev.op = "logout" /\ ev.out = "ok" /\ Undisturbed("lo")
  /\ ~lo.auth /\ Cleared

\* C9 (best-effort server logout): when the POST /auth/logout of an
\* authenticated session's logout failed, the handler still went on to the
\* local logout: it ends only with logout()'s own outcome, and a completed,
\* undisturbed logout() has cleared memory and store.
C9_BestEffortLogout ==
  (ev.by = "lo" /\ lo.auth /\ lo.apiFailed)
    => (/\ lo.pc = "idle" => (ev.op = "logout" /\ ev.out \in {"ok", "storeFail"})
        /\ (lo.pc = "idle" /\ ev.out = "ok" /\ Undisturbed("lo"))
             => (Cleared /\ screen = "login"))

\* C9 witness: an authenticated session logged out, the notification failed,
\* and the local logout completed.
C9_Witness ==
  /\ ev.by = "lo" /\ ev.op = "logout" /\ ev.out = "ok" /\ Undisturbed("lo")
  /\ lo.auth /\ lo.apiFailed /\ Cleared

\* C10 (round trip): when a completed login or verification left session s
\* in the store, the store was not written since, and loadStoredAuth of a
\* later process read it undisturbed, then it loaded exactly s: the
\* in-memory token and user are the ones that login persisted.
C10_RoundTrip ==
  (ev.by = "rs" /\ ev.op = "restore" /\ ev.out # "readError" /\ ev.out # "pending"
   /\ Undisturbed("rs") /\ persisted # Null)
    => (ev.out = "loaded" /\ token = persisted /\ user = persisted)

\* C10 witness: a restore that loaded the session a login had persisted.
C10_Witness ==
  /\ ev.by = "rs" /\ ev.op = "restore" /\ ev.out = "loaded"
  /\ Undisturbed("rs") /\ persisted # Null /\ token = persisted /\ user = persisted

\* C11 (restore with a persisted pair): loadStoredAuth sends no request (no
\* other handler goes in flight by it), and when it settles undisturbed over
\* a store that holds a token and the JSON text of a user, the session is
\* authenticated with exactly that token and that user.
C11_RestorePair ==
  [][ (ev'.by = "rs" /\ ev'.op = "restore")
        => (/\ UNCHANGED <<hl, mv, lo, rg, stToken, stUser>>
            /\ (rs'.pc = "done" /\ ev'.out # "readError" /\ Undisturbed("rs")'
                /\ stToken.kind = "str" /\ stUser.kind = "json")
                 => (/\ ev'.out = "loaded"
                     /\ Authenticated'
                     /\ token' = stToken.val /\ user' = stUser.val)) ]_vars

\* C11 witness: a restore loaded the pair the store held at startup (no
\* login of this model put it there).
C11_Witness ==
  /\ ev.by = "rs" /\ ev.op = "restore" /\ ev.out = "loaded" /\ Undisturbed("rs")
  /\ persisted = Null /\ Authenticated
  /\ stToken = Str(token) /\ stUser = JSONstringify(user)

\* C12 (restore is a no-op when authenticated): a step of loadStoredAuth
\* taken while the session is authenticated (a login completed while
\* restore was awaiting the store) changes neither the in-memory token and
\* user nor the persisted keys.
C12_RestoreNoOp ==
  [][ (ev'.by = "rs" /\ ev'.op = "restore" /\ Authenticated)
        => UNCHANGED <<token, user, stToken, stUser>> ]_vars

\* C13 (MFA login sequence): an MFA-required answer to handleLogin opens the
\* prompt holding the submitted credential and sets or persists nothing (a
\* login that ran undisturbed from an empty session leaves token and user
\* absent); a verification started from the prompt resubmits that credential
\* with the code, and when the server answers it with a token and a user and
\* it completes undisturbed, the session is authenticated with exactly that
\* token and user.
C13_MfaSequence ==
  [][ /\ (ev'.by = "hl" /\ ev'.op = "handleLogin" /\ ev'.out = "mfa")
          => (/\ showMfaModal'
              /\ pendingEmail' = hl.email /\ pendingPassword' = hl.password
              /\ UNCHANGED <<token, user, stToken, stUser>>
              /\ (Undisturbed("hl")' /\ hl.preToken = Null /\ hl.preUser = Null)
                   => (token' = Null /\ user' = Null))
      /\ (ev'.by = "mv" /\ ev'.op = "handleMfaVerify" /\ ev'.out = "start" /\ showMfaModal)
          => (/\ mv'.email = pendingEmail /\ mv'.password = pendingPassword
              /\ mv'.code = mfaCode /\ pendingPassword # "")
      /\ (ev'.by = "mv" /\ ev'.op = "handleMfaVerify" /\ ev'.out = "ok"
          /\ Undisturbed("mv")')
          => (/\ Authenticated'
              /\ token' = mv.sess /\ user' = mv.sess
              /\ stToken' = Str(mv.sess)) ]_vars

\* C13 witness: a verification completed and the session is authenticated
\* with the persisted token; the prompt is closed and the tabs are shown.
C13_Witness ==
  /\ ev.by = "mv" /\ ev.op = "handleMfaVerify" /\ ev.out = "ok" /\ Undisturbed("mv")
  /\ Authenticated /\ stToken = Str(token) /\ ~showMfaModal /\ screen = "tabs"

\* C14 (direct login success): when handleLogin was answered with a token
\* and a user and completes undisturbed, exactly that token and that user
\* are held in memory and persisted, and the session is authenticated.
C14_DirectLogin ==
  [][ (ev'.by = "hl" /\ ev'.op = "handleLogin" /\ ev'.out = "ok" /\ Undisturbed("hl")')
        => (/\ hl.sess # Null
            /\ token' = hl.sess /\ user' = hl.sess
            /\ stToken' = Str(hl.sess) /\ stUser' = JSONstringify(hl.sess)
            /\ Authenticated'
            /\ hl'.pc = "idle" /\ loading' = FALSE) ]_vars

\* C14 witness: a direct login completed (no MFA prompt was involved): the
\* session is authenticated and the store holds the same pair.
C14_Witness ==
  /\ ev.by = "hl" /\ ev.op = "handleLogin" /\ ev.out = "ok" /\ Undisturbed("hl")
  /\ Authenticated /\ token = persisted
  /\ stToken = Str(token) /\ stUser = JSONstringify(user)
  /\ pendingPassword = "" /\ ~loading

\* The detail texts the server can send with a rejection.
ServerDetails == {r.detail : r \in ErrorResponses} \ {""}

\* C15 (rejected login): when the POST of handleLogin fails (rejection or
\* transport failure), the handler settles without changing the in-memory
\* token and user, the persisted keys or the MFA state (after an undisturbed
\* run they are what they were when it started), and it reports a non-empty
\* message: the server's detail when the error carries one, otherwise a text
\* that does not come from the server.
C15_RejectedLogin ==
  [][ (ev'.by = "hl" /\ ev'.op = "handleLogin" /\ ev'.out = "apiFail")
        => (/\ UNCHANGED <<token, user, stToken, stUser, showMfaModal,
                           pendingEmail, pendingPassword, screen>>
            /\ hl'.pc = "idle" /\ loading' = FALSE
            /\ Undisturbed("hl")' => (token' = hl.preToken /\ user' = hl.preUser)
            /\ ev'.msg # ""
            /\ IF ev'.detail # "" THEN ev'.msg = ev'.detail
                                  ELSE ev'.msg \notin ServerDetails) ]_vars

\* C15 witness: a login failed with an error that carries neither a detail
\* nor a message; the generic text was reported and the session is still
\* unauthenticated.
C15_Witness ==
  /\ ev.by = "hl" /\ ev.op = "handleLogin" /\ ev.out = "apiFail" /\ Undisturbed("hl")
  /\ ev.detail = "" /\ ev.msg = "Login failed"
  /\ token = Null /\ user = Null /\ ~showMfaModal /\ screen = "login"

\* C16 (failed second factor keeps the flow open): when the POST of
\* handleMfaVerify fails (wrong code or transport error), the handler settles
\* leaving the prompt, the pending e-mail and password, the in-memory token
\* and user and the persisted keys as they were, and reports a non-empty
\* message (the server's detail or 'Invalid MFA code'); with the prompt still
\* shown the pending credential is non-empty, so a retry needs no re-entry.
C16_FailedSecondFactor ==
  [][ (ev'.by = "mv" /\ ev'.op = "handleMfaVerify" /\ ev'.out = "apiFail")
        => (/\ UNCHANGED <<showMfaModal, pendingEmail, pendingPassword, mfaCode,
                           token, user, stToken, stUser, screen>>
            /\ mv'.pc = "idle" /\ mfaLoading' = FALSE
            /\ ev'.msg = (IF ev'.detail # "" THEN ev'.detail ELSE "Invalid MFA code")
            /\ showMfaModal =>
                 (/\ showMfaModal'
                  /\ pendingEmail' = mv.email /\ pendingPassword' = mv.password
                  /\ pendingEmail' # "" /\ pendingPassword' # "")) ]_vars

\* C16 witness: a verification failed; the prompt is still shown with the
\* pending credential and the typed code, and no token or user is set.
C16_Witness ==
  /\ ev.by = "mv" /\ ev.op = "handleMfaVerify" /\ ev.out = "apiFail" /\ Undisturbed("mv")
  /\ showMfaModal /\ pendingEmail = "a@x.com" /\ pendingPassword = "secret"
  /\ token = Null /\ user = Null /\ ~mfaLoading

\* C17 (cancel then verify): handleCancelMfa closes the prompt, erases the
\* pending e-mail and password and the typed code, and touches neither the
\* in-memory token and user nor the persisted keys; a handleMfaVerify called
\* next is rejected: it sends no request and changes no token or user.
C17_CancelThenVerify ==
  [][ /\ (ev'.op = "handleCancelMfa")
          => (/\ showMfaModal /\ ~showMfaModal'
              /\ pendingEmail' = "" /\ pendingPassword' = "" /\ mfaCode' = <<>>
              /\ UNCHANGED <<token, user, stToken, stUser, hl, mv, screen>>)
      /\ (ev.op = "handleCancelMfa" /\ ev'.by = "mv" /\ ev'.op = "handleMfaVerify"
          /\ ev'.out \in {"rejected", "start"})
          => (/\ ev'.out = "rejected"
              /\ UNCHANGED <<mv, mfaLoading, showMfaModal, pendingEmail, pendingPassword,
                             token, user, stToken, stUser>>) ]_vars

\* C17 witness: the prompt was cancelled while no verification was in
\* flight: the session is unauthenticated with nothing pending.
C17_Witness ==
  /\ ev.op = "handleCancelMfa" /\ ~showMfaModal
  /\ pendingEmail = "" /\ pendingPassword = "" /\ mfaCode = <<>>
  /\ mv.pc = "idle" /\ ~mfaLoading /\ token = Null /\ user = Null /\ screen = "login"

\* C18 (setToken / setUser preserve status): a call of the context's setToken
\* or setUser on an authenticated session, with any argument of its type,
\* leaves the session authenticated, and when it resolves the persisted and
\* the in-memory value of its field are the same new value.
C18_SettersPreserveStatus ==
  [][ (ev'.by = "ctx" /\ ev'.op \in {"setToken", "setUser"} /\ Authenticated)
        => (/\ Authenticated'
            /\ (ev'.op = "setToken" /\ ev'.out = "ok")
                 => stToken' = (IF token' # Null THEN Str(token') ELSE Absent)
            /\ (ev'.op = "setUser" /\ ev'.out = "ok")
                 => stUser' = (IF user' # Null THEN JSONstringify(user') ELSE Absent)) ]_vars

\* C19 (failures leave a valid state): when a login or a verification that
\* started with token and user both present or both absent, and ran
\* undisturbed, fails at any step, memory again holds both or neither.
C19_FailureLeavesValid ==
  [][ /\ (ev'.by = "hl" /\ ev'.out \in {"apiFail", "storeFail"} /\ Undisturbed("hl")'
          /\ ((hl.preToken = Null) <=> (hl.preUser = Null)))
          => ((token' = Null) <=> (user' = Null))
      /\ (ev'.by = "mv" /\ ev'.out \in {"apiFail", "storeFail"} /\ Undisturbed("mv")'
          /\ ((mv.preToken = Null) <=> (mv.preUser = Null)))
          => ((token' = Null) <=> (user' = Null)) ]_vars

\* C20 (AwaitingSecondFactor invariant): the MFA prompt is shown exactly
\* when a pending e-mail and password are held, and while it is shown no
\* in-memory token or user is set.
C20_AwaitingSecondFactor ==
  /\ showMfaModal <=> (pendingEmail # "" /\ pendingPassword # "")
  /\ showMfaModal => (token = Null /\ user = Null)

\* C21 (login has exactly three outcomes): a handleLogin that got an answer
\* or an error has settled as a direct success (tabs shown), as second
\* factor required (prompt shown with the credential) or as a reported
\* failure (a message was shown); it never settles silently.
C21_ThreeOutcomes ==
  (ev.by = "hl" /\ ev.op = "handleLogin" /\ hl.pc = "idle")
    => \/ ev.out = "ok" /\ screen = "tabs"
       \/ ev.out = "mfa" /\ showMfaModal /\ pendingPassword # ""
       \/ ev.out \in {"apiFail", "storeFail", "rejected"} /\ ev.msg # ""

\* C22 (cancel cannot overtake an in-flight verification): handleCancelMfa
\* takes effect only while no handleMfaVerify is in flight.
C22_CancelWaits ==
  [][ (ev'.op = "handleCancelMfa") => (mv.pc = "idle" /\ ~mfaLoading) ]_vars

\* C25 (restore ignores a half-persisted store): when loadStoredAuth settles
\* undisturbed over a store that holds only the token key or only the user
\* key, it sets neither the in-memory token nor the in-memory user, and the
\* session is unauthenticated.
C25_HalfStoreIgnored ==
  [][ (ev'.by = "rs" /\ ev'.op = "restore" /\ rs'.pc = "done" /\ ev'.out # "readError"
       /\ Undisturbed("rs")' /\ (Truthy(stToken) # Truthy(stUser)))
        => (/\ ev'.out = "empty"
            /\ UNCHANGED <<token, user, stToken, stUser>>
            /\ token' = Null /\ user' = Null /\ ~authLoading') ]_vars

\* C25 witness: restore settled over a store with a token and no user.
C25_Witness ==
  /\ ev.by = "rs" /\ ev.op = "restore" /\ ev.out = "empty" /\ Undisturbed("rs")
  /\ stToken # Absent /\ stUser = Absent
  /\ token = Null /\ user = Null /\ ~authLoading

\* C26 (input guards send nothing): handleLogin with an empty e-mail or
\* password shows the alert and starts no request and changes nothing of the
\* session or the MFA state; handleMfaVerify starts a request only with a
\* code of exactly 6 characters, and otherwise changes nothing.
C26_InputGuards ==
  [][ /\ (ev'.by = "hl" /\ ev'.op = "handleLogin" /\ ev'.out \in {"rejected", "start"}
          /\ (email' = "" \/ password' = ""))
          => (/\ ev'.out = "rejected" /\ ev'.msg # ""
              /\ UNCHANGED <<hl, loading, provider, storage, showMfaModal, mfaCode,
                             mfaLoading, pendingEmail, pendingPassword, screen>>)
      /\ (ev'.by = "hl" /\ ev'.op = "handleLogin" /\ ev'.out = "start")
          => (hl'.email # "" /\ hl'.password # "")
      /\ (ev'.by = "mv" /\ ev'.op = "handleMfaVerify" /\ ev'.out \in {"rejected", "start"})
          => IF Len(mfaCode) = MfaCodeLen
               THEN ev'.out = "start" /\ mv'.code = mfaCode
               ELSE /\ ev'.out = "rejected" /\ ev'.msg # ""
                    /\ UNCHANGED <<mv, mfaLoading, provider, storage, showMfaModal, mfaCode,
                                   pendingEmail, pendingPassword, screen>> ]_vars

\* C26 witness: handleLogin was called with an e-mail and no password and
\* only alerted.
C26_Witness ==
  /\ ev.by = "hl" /\ ev.op = "handleLogin" /\ ev.out = "rejected"
  /\ email = "a@x.com" /\ password = "" /\ hl.pc = "idle" /\ ~loading

\* C27 (busy flags are balanced): loading is true exactly while a
\* handleLogin is in flight and mfaLoading exactly while a handleMfaVerify is
\* in flight; a settled handler has cleared its flag on every exit path.
C27_BusyFlagsBalanced ==
  /\ loading <=> (hl.pc # "idle")
  /\ mfaLoading <=> (mv.pc # "idle")

\* C27 witness: a verification ended on the path of a response without a
\* token, and its flag is false again.
C27_Witness ==
  /\ ev.by = "mv" /\ ev.op = "handleMfaVerify" /\ ev.out = "silent"
  /\ mv.pc = "idle" /\ ~mfaLoading /\ ~loading

\* The restore half of C24 on its own: loadStoredAuth eventually clears the
\* provider's loading flag, and the flag stays cleared.
RestoreTerminates == <>[](~authLoading /\ rs.pc = "done")

\* C24 (restore always settles): when the storage reads settle, the startup
\* loadStoredAuth eventually sets loading to false on every path, and when
\* it has done so (undisturbed) the session is authenticated (token and
\* user) or unauthenticated (neither).
C24_RestoreSettles ==
  /\ <>[](~authLoading /\ rs.pc = "done")
  /\ [](((ev.by = "rs" /\ ev.op = "restore" /\ rs.pc = "done" /\ Undisturbed("rs"))
          => (/\ ~authLoading
              /\ Authenticated \/ (token = Null /\ user = Null))))

\* C23 (no terminal state): from every reachable state of a process both an
\* authenticated session and an unauthenticated session at rest (nothing in
\* flight, every busy flag false) can be reached again: in every behaviour
\* that keeps taking what is possible, each of them recurs for ever.
C23_NoTerminalState ==
  /\ []<>Authenticated
  /\ []<>(/\ token = Null /\ user = Null /\ Live = {}
          /\ ~loading /\ ~mfaLoading /\ ~authLoading)

\* C23 witness: after a failed login, a failed verification's prompt was
\* cancelled and nothing is in flight: the machine is at rest,
\* unauthenticated, on the login screen.
C23_Witness ==
  /\ ev.op = "handleCancelMfa" /\ Live = {} /\ screen = "login"
  /\ ~loading /\ ~mfaLoading /\ ~authLoading /\ token = Null /\ user = Null

\* C28 (register mirrors login): register stores the token without touching
\* memory, then stores the user and assigns both; when it completes
\* undisturbed, memory and store hold exactly the answered token and user
\* and the session is authenticated.  A failed register leaves the
\* in-memory token and user unchanged and raises the server's detail when
\* the error carries one and 'Registration failed' otherwise.
C28_RegisterMirrorsLogin ==
  [][ /\ (ev'.by = "rg" /\ rg.pc = "setToken" /\ rg'.pc = "setUser")
          => (UNCHANGED <<token, user>> /\ stToken' = Str(rg.sess))
      /\ (ev'.by = "rg" /\ ev'.op = "register" /\ ev'.out = "ok" /\ Undisturbed("rg")')
          => (/\ rg.sess # Null
              /\ stToken' = Str(rg.sess) /\ stUser' = JSONstringify(rg.sess)
              /\ token' = rg.sess /\ user' = rg.sess
              /\ Authenticated' /\ ~regLoading')
      /\ (ev'.by = "rg" /\ ev'.op = "register" /\ ev'.out \in {"apiFail", "storeFail"})
          => (/\ UNCHANGED <<token, user, screen>>
              /\ rg'.pc = "idle" /\ ~regLoading'
              /\ ev'.msg = (IF ev'.detail # "" THEN ev'.detail
                                               ELSE "Registration failed")) ]_vars

\* C28 witness: a registration completed; the session is authenticated with
\* the stored pair and the consent screen is shown.
C28_Witness ==
  /\ ev.by = "rg" /\ ev.op = "register" /\ ev.out = "ok" /\ Undisturbed("rg")
  /\ Authenticated /\ stToken = Str(token) /\ stUser = JSONstringify(user)
  /\ screen = "gdpr" /\ ~regLoading

\* C29 (GDPR consent gating): the local 'gdpr_consent' record is written and
\* the screen is left only in the step that ends a handleContinue whose
\* consents included both required ones and whose backend request succeeded;
\* without a required consent handleContinue sends nothing; when the
\* backend request fails nothing is stored and the screen stays.
C29_ConsentGating ==
  [][ /\ (stConsent' # stConsent \/ (screen = "gdpr" /\ screen' # "gdpr"))
          => (/\ ev'.by = "gc" /\ ev'.out = "ok" /\ gc.pc = "setItem"
              /\ allRequired(gc.consents)
              /\ stConsent' = {ConsentRecord(gc.consents)}
              /\ screen' = "tabs")
      /\ (gc.pc # "setItem" /\ gc'.pc = "setItem")
          => (ev'.by = "gc" /\ ev'.out = "pending" /\ gc.pc = "post")
      /\ (ev'.by = "gc" /\ ev'.out \in {"rejected", "start"} /\ ~allRequired(consents))
          => (ev'.out = "rejected" /\ UNCHANGED <<gc, stConsent, screen>>)
      /\ (ev'.by = "gc" /\ ev'.out = "apiFail")
          => (UNCHANGED <<stConsent, screen>> /\ gc'.pc = "idle") ]_vars

\* C29 witness: the consent was stored with both required consents and one
\* optional consent declined, and the tabs are shown.
C29_Witness ==
  /\ ev.by = "gc" /\ ev.op = "handleContinue" /\ ev.out = "ok"
  /\ stConsent # {} /\ screen = "tabs" /\ gc.pc = "idle"
  /\ \A r \in stConsent : r.dataProcessing /\ r.dataStorage /\ ~r.marketing

\* C30 (tender claim ownership): handleClaim sends a DELETE only when the
\* tender's claimed_by is the current user's id and a POST only when the
\* tender is unclaimed, sends nothing when another user holds the claim or
\* no tender is loaded, changes the local claimed_by only when the request
\* of a call succeeded (to nobody after a DELETE, to the caller after a
\* POST), and isClaiming is false after every path.
C30_ClaimOwnership ==
  [][ /\ (hc' \ hc # {})
          => (/\ ev'.by = "hc" /\ ev'.out = "start" /\ tender.loaded
              /\ \A h \in hc' \ hc :
                   /\ h.req = "delete" => (tender.claimed_by # Null /\ tender.claimed_by = user)
                   /\ h.req = "post" => tender.claimed_by = Null
                   /\ h.uid = user)
      /\ (ev'.by = "hc" /\ ev'.out \in {"start", "info", "rejected"}
          /\ (~tender.loaded \/ (tender.claimed_by # Null /\ tender.claimed_by # user)))
          => (hc' = hc /\ UNCHANGED tender /\ ev'.out # "start")
      /\ (tender.loaded /\ tender'.claimed_by # tender.claimed_by)
          => (/\ ev'.by = "hc" /\ ev'.out = "ok"
              /\ \E h \in hc \ hc' :
                   tender'.claimed_by = (IF h.req = "delete" THEN Null ELSE h.uid))
      /\ (ev'.by = "hc" /\ ev'.out \in {"rejected", "info", "ok", "apiFail"})
          => ~isClaiming'
      /\ (hc' = {}) => ~isClaiming' ]_vars

\* C30 witness: the current user claimed an unclaimed tender; the POST
\* succeeded, the tender is theirs and isClaiming is false again.
C30_Witness ==
  /\ ev.by = "hc" /\ ev.op = "handleClaim" /\ ev.out = "ok" /\ ev.msg = "post"
  /\ user # Null /\ tender.loaded /\ tender.claimed_by = user
  /\ hc = {} /\ ~isClaiming

====
